---- MODULE Spec2Model ----
(***************************************************************************)
(* Model of the image-generation route (src/app/api/generate/route.ts):    *)
(* the in-memory rate limiter, the retrying inference client and the POST *)
(* request handler, and of generateImage on the client page.  Times are    *)
(* milliseconds, as returned by Date.now().                                *)
(***************************************************************************)
EXTENDS Integers, Sequences, FiniteSets, TLC

VARIABLES
  now,         \* Date.now()
  ticks,       \* how many times the clock advanced
  requestLog,  \* the rate limiter's map: identity -> timestamps
  ncalls,      \* SpecRL: number of direct rate-limiter calls
  admitLog,    \* SpecRL: every admitted call of each identity, never pruned
  last,        \* SpecRL: the last rate-limiter call
  gen,         \* SpecGen: the running call of generateImageWithRetry
  hist,        \* SpecGen: the upstream answers it received, in order
  apiKey,      \* Spec: process.env.HUGGINGFACE_API_KEY is set
  backupKey,   \* Spec: the environment holds a second, backup API key
  task,        \* Spec: the POST handler tasks in flight
  nreq,        \* Spec: number of requests received
  user,        \* SpecClient: the signed-in user of the page, or Null
  client,      \* SpecClient: the page state and its call of generateImage
  history      \* SpecClient: the documents of the 'images' collection

vars == <<now, ticks, requestLog, ncalls, admitLog, last, gen, hist,
          apiKey, backupKey, task, nreq, user, client, history>>

rlVars == <<ncalls, admitLog, last>>

genVars == <<gen, hist>>

postVars == <<apiKey, backupKey, task, nreq>>

clientVars == <<user, client, history>>

(***************************************************************************)
(* Program constants                                                       *)
(***************************************************************************)
RATE_LIMIT_WINDOW == 60 * 1000

MAX_REQUESTS_PER_WINDOW == 5

MAX_RETRIES == 3

RETRY_DELAY == 2000

(***************************************************************************)
(* Bounds of the model                                                     *)
(***************************************************************************)
\* number of times the clock advances
MaxTicks == 3

\* number of times the clock advances while the handler serves requests
\* one after the other
MaxPostTicks == 2

\* number of times the clock advances while two handlers race
MaxRaceTicks == 1

\* number of direct rate-limiter calls
MaxCalls == 6

\* number of times the Generate button is pressed
MaxClicks == 3

\* amounts by which the clock advances between two events
Deltas == {1, 1000, 59999}

\* keys of requestLog: the x-forwarded-for values and the fallback
Identities == {"anonymous", "10.0.0.1"}

(***************************************************************************)
(* Rate limiter                                                            *)
(***************************************************************************)
\* requestLog[userId] || []
userRequests(log, userId) ==
  IF userId \in DOMAIN log THEN log[userId] ELSE <<>>

\* a filter that drops nothing (the pruned list is not kept)
filterKeepAll(seq, t) ==
  seq

\* a filter that keeps a timestamp of age RATE_LIMIT_WINDOW
filterInclusive(seq, t) ==
  SelectSeq(seq, LAMBDA timestamp : t - timestamp <= RATE_LIMIT_WINDOW)

\* userRequests.filter(timestamp => now - timestamp < RATE_LIMIT_WINDOW)
filter(seq, t) ==
  SelectSeq(seq, LAMBDA timestamp : t - timestamp < RATE_LIMIT_WINDOW)

\* an assignment that keeps one list for all identities
assignShared(log, userId, value) ==
  [k \in DOMAIN log \cup {"anonymous"} |->
     IF k = "anonymous" THEN value ELSE log[k]]

\* requestLog[userId] = value
assign(log, userId, value) ==
  [k \in DOMAIN log \cup {userId} |-> IF k = userId THEN value ELSE log[k]]

\* isRateLimited with the quota test written > instead of >=
isRateLimitedOffByOne(log, userId, t) ==
  LET kept == filter(userRequests(log, userId), t) IN
  IF Len(kept) > MAX_REQUESTS_PER_WINDOW
    THEN [log |-> assign(log, userId, kept), limited |-> TRUE]
    ELSE [log |-> assign(log, userId, Append(kept, t)), limited |-> FALSE]

\* isRateLimited that records the call before it tests the quota
isRateLimitedRecordAll(log, userId, t) ==
  LET kept == filter(userRequests(log, userId), t) IN
  [log |-> assign(log, userId, Append(kept, t)),
   limited |-> Len(kept) >= MAX_REQUESTS_PER_WINDOW]

\* isRateLimited(userId) called when Date.now() = t on the log `log`:
\* the log after the call and the value returned
isRateLimited(log, userId, t) ==
  LET kept == filter(userRequests(log, userId), t) IN
  IF Len(kept) >= MAX_REQUESTS_PER_WINDOW
    THEN [log |-> assign(log, userId, kept), limited |-> TRUE]
    ELSE [log |-> assign(log, userId, Append(kept, t)), limited |-> FALSE]

(***************************************************************************)
(* The clock                                                               *)
(***************************************************************************)
Tick(d) ==
  /\ ticks < MaxTicks
  /\ now' = now + d
  /\ ticks' = ticks + 1

NoCall ==
  [called |-> FALSE, userId |-> "none", at |-> 0, before |-> <<>>,
   limited |-> FALSE]

(***************************************************************************)
(* Inference client: generateImageWithRetry                                *)
(*                                                                         *)
(* One upstream answer is [status, body]: status 0 stands for a fetch that *)
(* rejects (transport failure); body Unreadable stands for a body read     *)
(* (response.text() / response.arrayBuffer()) that rejects.  A body text   *)
(* is known by the status codes its characters spell out.                  *)
(***************************************************************************)
Statuses == {200, 429, 500, 503}

Bodies == {"bytes", "quota 429", "loading 503"}

Unreadable == "unreadable"

NoResponse == [status |-> 0, body |-> Unreadable]

Outcomes == {NoResponse} \cup [status : Statuses, body : Bodies \cup {Unreadable}]

\* a success test without the upper bound of the 2xx range
okNoUpperBound(status) == status >= 200

\* response.ok
ok(status) == status >= 200 /\ status <= 299

\* what a call settles with is [kind, status, body]: the bytes returned
\* (kind "bytes") or the Error thrown (kind "http" or "transport")
NoValue == [kind |-> "none", status |-> 0, body |-> "none"]

\* the ArrayBuffer of response.arrayBuffer()
Bytes(body) == [kind |-> "bytes", status |-> 0, body |-> body]

\* new Error(`HTTP error! status: ${response.status}, body: ${errorText}`)
HttpError(status, body) == [kind |-> "http", status |-> status, body |-> body]

\* the TypeError of a rejected fetch or body read ("fetch failed")
TransportError == [kind |-> "transport", status |-> 0, body |-> "fetch failed"]

\* text.includes(code) for the body texts of the model
textIncludes(text, code) ==
  \/ text = "quota 429" /\ code = 429
  \/ text = "loading 503" /\ code = 503

\* error.message.includes(code): the message of an HTTP error spells the
\* status and then the body
includes(error, code) ==
  /\ error.kind = "http"
  /\ (error.status = code \/ textIncludes(error.body, code))

\* API_KEY, the credential of every fetch of a call: POST passes
\* process.env.HUGGINGFACE_API_KEY
NoKey == "none"

PrimaryKey == "HUGGINGFACE_API_KEY"

NoGen ==
  [pc |-> "none", rev |-> "none", API_KEY |-> NoKey, retryCount |-> 0,
   calls |-> 0, delays |-> 0, waited |-> 0, value |-> NoValue]

\* generateImageWithRetry(modelId, prompt, API_KEY): retryCount = 0, the
\* first fetch is pending
startGenerate ==
  [pc |-> "fetch", rev |-> "A", API_KEY |-> PrimaryKey, retryCount |-> 0,
   calls |-> 0, delays |-> 0, waited |-> 0, value |-> NoValue]

\* await sleep(ms): the call is suspended until the timer fires; delays
\* counts the calls of sleep and waited adds up their durations
sleep(g, ms) ==
  [g EXCEPT !.pc = "sleep", !.delays = @ + 1, !.waited = @ + ms]

\* the 503 branch without the delay
warmUpNoDelay(g) ==
  [g EXCEPT !.pc = "fetch", !.retryCount = @ + 1]

\* the 503 branch: wait, then call again with retryCount + 1
warmUp(g) ==
  sleep(g, RETRY_DELAY)

\* the catch block with the retry test written <= instead of <
catchOneMore(g, error) ==
  IF g.retryCount <= MAX_RETRIES
    THEN sleep(g, RETRY_DELAY)
    ELSE [g EXCEPT !.pc = "thrown", !.value = error]

\* the catch block without the retry
catchNoRetry(g, error) ==
  [g EXCEPT !.pc = "thrown", !.value = error]

\* the catch block: retry after the delay while retryCount < MAX_RETRIES,
\* else rethrow
catch(g, error) ==
  IF g.retryCount < MAX_RETRIES
    THEN sleep(g, RETRY_DELAY)
    ELSE [g EXCEPT !.pc = "thrown", !.value = error]

\* the body of the try block once fetch has settled with `out`
afterFetch(g0, out) ==
  LET g == [g0 EXCEPT !.calls = @ + 1] IN
  IF out.status = 0 THEN catch(g, TransportError)
  ELSE IF out.status = 503 /\ g.retryCount < MAX_RETRIES THEN warmUp(g)
  ELSE IF ~ok(out.status)
    THEN IF out.body = Unreadable
           THEN catch(g, TransportError)
           ELSE catch(g, HttpError(out.status, out.body))
  ELSE IF out.body = Unreadable
    THEN catch(g, TransportError)
    ELSE [g EXCEPT !.pc = "returned", !.value = Bytes(out.body)]

\* a recursive call that passes retryCount on unchanged
afterSleepSameCount(g) ==
  [g EXCEPT !.pc = "fetch"]

\* the timer of sleep fires: the recursive call with retryCount + 1 starts
afterSleep(g) ==
  [g EXCEPT !.pc = "fetch", !.retryCount = @ + 1]

(***************************************************************************)
(* Inference client, second revision of route.ts (lines 181-380): the body *)
(* is read as text and decoded as JSON before the status is looked at.     *)
(* The field rev of a call tells the revision, "A" (lines 1-180) or "B".   *)
(*                                                                         *)
(* A body text is known by three things: whether JSON.parse accepts it,    *)
(* whether the parsed value has a truthy `error`, and whether the text     *)
(* starts with '{'.                                                        *)
(***************************************************************************)
StatusesB == {200, 500, 503}

BodiesB ==
  { "bytes",                     \* image data: not JSON
    "{bytes",                    \* not JSON, first character '{'
    "{\"error\":\"loading\"}",     \* JSON error envelope
    " {\"error\":\"loading\"}",    \* the same after a blank
    "{\"estimated_time\":20}",    \* JSON object without `error`
    "[]" }                       \* JSON, not an object

OutcomesB ==
  {NoResponse} \cup [status : StatusesB, body : BodiesB \cup {Unreadable}]

\* JSON.parse(responseBody) returns
parses(responseBody) ==
  responseBody \in {"{\"error\":\"loading\"}", " {\"error\":\"loading\"}",
                    "{\"estimated_time\":20}", "[]"}

\* jsonResponse.error is truthy
hasError(responseBody) ==
  responseBody \in {"{\"error\":\"loading\"}", " {\"error\":\"loading\"}"}

\* responseBody.startsWith('{')
startsWithBrace(responseBody) ==
  responseBody \in {"{bytes", "{\"error\":\"loading\"}", "{\"estimated_time\":20}"}

\* new Error('MODEL_LOADING:20')
ModelLoadingError ==
  [kind |-> "loading", status |-> 0, body |-> "MODEL_LOADING:20"]

\* new Error('Invalid response format from API')
InvalidFormatError ==
  [kind |-> "format", status |-> 0, body |-> "Invalid response format from API"]

startGenerateB ==
  [startGenerate EXCEPT !.rev = "B"]

\* the catch block of revision B: MODEL_LOADING:20 is rethrown at once,
\* any other error is retried while retryCount < MAX_RETRIES
catchB(g, error) ==
  IF error = ModelLoadingError
    THEN [g EXCEPT !.pc = "thrown", !.value = error]
  ELSE IF g.retryCount < MAX_RETRIES
    THEN sleep(g, RETRY_DELAY)
    ELSE [g EXCEPT !.pc = "thrown", !.value = error]

\* the inner try/catch around JSON.parse lets an exception out: the parse
\* failed, or the `API Error` thrown for jsonResponse.error was caught by
\* the inner catch, and the status is not 2xx
decodeThrows(out) ==
  /\ ~parses(out.body) \/ hasError(out.body)
  /\ ~ok(out.status)

\* the body of the try block of revision B once fetch has settled
afterFetchB(g0, out) ==
  LET g == [g0 EXCEPT !.calls = @ + 1] IN
  IF out.status = 0 \/ out.body = Unreadable THEN catchB(g, TransportError)
  ELSE IF decodeThrows(out) THEN catchB(g, HttpError(out.status, out.body))
  ELSE IF out.status = 503 /\ g.retryCount < MAX_RETRIES
    THEN IF g.retryCount = 0 THEN catchB(g, ModelLoadingError)
                              ELSE warmUp(g)
  ELSE IF ~ok(out.status) THEN catchB(g, HttpError(out.status, out.body))
  ELSE IF ~startsWithBrace(out.body)
    THEN [g EXCEPT !.pc = "returned", !.value = Bytes(out.body)]
    ELSE catchB(g, InvalidFormatError)

(***************************************************************************)
(* Request handler: POST                                                   *)
(*                                                                         *)
(* A request is [json, prompt, forwardedFor]: json "malformed" stands for  *)
(* a body on which request.json() rejects.  Each handler runs as one task; *)
(* it is suspended at request.json(), at fetch and at sleep, and runs      *)
(* without interruption between two suspensions.                           *)
(***************************************************************************)
Tasks == {1, 2}

\* number of requests received in one run
MaxRequests == 6

\* the value of a field that is absent (undefined / null)
Undefined == "<undefined>"

Prompts == {Undefined, "", "a cat"}

Headers == {Undefined, "10.0.0.1"}

Requests ==
  {[json |-> "malformed", prompt |-> Undefined, forwardedFor |-> h] : h \in Headers}
  \cup [json : {"object"}, prompt : Prompts, forwardedFor : Headers]

\* !v for a string-valued field
falsyOnlyUndefined(v) == v = Undefined

falsy(v) == v = Undefined \/ v = ""

\* the header value taken as the identity, without the fallback
userIdOfHeaderOnly(req) ==
  req.forwardedFor

\* request.headers.get('x-forwarded-for') || 'anonymous'
userIdOf(req) ==
  IF falsy(req.forwardedFor) THEN "anonymous" ELSE req.forwardedFor

NoRequest == [json |-> "none", prompt |-> Undefined, forwardedFor |-> Undefined]

\* a response is [status, field, text, detail]: the JSON body has the one
\* field `field`, whose value is `text` followed by the text of `detail`
Unanswered == [status |-> 0, field |-> "none", text |-> "none", detail |-> NoValue]

\* NextResponse.json({ error: text }, { status })
errorResponse(status, text, detail) ==
  [status |-> status, field |-> "error", text |-> text, detail |-> detail]

\* NextResponse.json({ output: `data:image/jpeg;base64,${base64Image}` })
outputResponse(imageBuffer) ==
  [status |-> 200, field |-> "output", text |-> "data:image/jpeg;base64,",
   detail |-> imageBuffer]

Idle ==
  [pc |-> "idle", req |-> NoRequest, userId |-> "none", g |-> NoGen,
   response |-> Unanswered, trace |-> <<>>,
   arrWin |-> <<>>, raced |-> FALSE, checked |-> FALSE, kept |-> FALSE,
   admitted |-> FALSE, answer |-> NoResponse]

\* the handler ends with a response
finish(tk, phase, response) ==
  [tk EXCEPT !.pc = "done", !.response = response,
             !.trace = Append(@, phase)]

\* the outer catch block lets the exception escape
outerCatchRethrow(tk) ==
  [tk EXCEPT !.pc = "crashed"]

\* the outer catch block
outerCatch(tk) ==
  finish(tk, "Failed",
         errorResponse(500, "An unexpected error occurred. Please try again.", NoValue))

\* the inner catch block: the response for a failure of generateImageWithRetry
failureResponse(error) ==
  IF includes(error, 429)
    THEN errorResponse(429, "Too many requests. Please wait a minute and try again.", NoValue)
  ELSE IF includes(error, 503)
    THEN errorResponse(503, "Model is currently loading. Please try again in a few seconds.", NoValue)
  ELSE errorResponse(500, "Failed to generate image: ", error)

\* the inner catch block of POST in revision B
failureResponseB(error) ==
  IF error = ModelLoadingError
    THEN errorResponse(503, "Model is currently loading. Please wait 20 seconds.", NoValue)
  ELSE IF includes(error, 429)
    THEN errorResponse(429, "Too many requests. Please wait a minute.", NoValue)
  ELSE errorResponse(500, "Failed to generate image: ", error)

\* the continuation of `await generateImageWithRetry(...)` in POST
afterGenerate(tk) ==
  IF tk.g.pc = "returned"
    THEN finish(tk, "Succeeded", outputResponse(tk.g.value))
  ELSE IF tk.g.pc = "thrown"
    THEN finish(tk, "Failed", failureResponse(tk.g.value))
  ELSE [tk EXCEPT !.pc = tk.g.pc]

\* the rate check made on the timestamps the handler saw when it started
rateCheckStale(tk, log, t) ==
  isRateLimited(assign(log, tk.userId, tk.arrWin), tk.userId, t)

\* isRateLimited(userId) with the identity of the request
rateCheck(tk, log, t) ==
  isRateLimited(log, userIdOf(tk.req), t)

\* the test `!process.env.HUGGINGFACE_API_KEY` that never finds the key missing
notConfiguredNever(key) == FALSE

\* !process.env.HUGGINGFACE_API_KEY
notConfigured(key) == ~key

\* the handler goes on to generate whatever the rate limiter answered
afterRateCheckNoReturn(tk, r) ==
  [task |-> [tk EXCEPT !.pc = "fetch", !.g = startGenerate,
                       !.trace = @ \o <<"RateChecked", "Generating">>],
   log |-> r.log]

\* an admitted request goes on to generate but its timestamp is not kept
afterRateCheckUnrecorded(tk, r) ==
  IF r.limited
    THEN [task |-> finish(tk, "Failed",
                          errorResponse(429, "Rate limit exceeded. Please wait 1 minute before trying again.", NoValue)),
          log |-> r.log]
    ELSE [task |-> [tk EXCEPT !.pc = "fetch", !.g = startGenerate,
                              !.trace = @ \o <<"RateChecked", "Generating">>],
          log |-> [r.log EXCEPT ![tk.userId] = SubSeq(@, 1, Len(@) - 1)]]

\* POST after isRateLimited(userId) answered r: the 429 response, or the
\* start of generateImageWithRetry
afterRateCheck(tk, r) ==
  IF r.limited
    THEN [task |-> finish(tk, "Failed",
                          errorResponse(429, "Rate limit exceeded. Please wait 1 minute before trying again.", NoValue)),
          log |-> r.log]
    ELSE [task |-> [tk EXCEPT !.pc = "fetch", !.g = startGenerate,
                              !.trace = @ \o <<"RateChecked", "Generating">>],
          log |-> r.log]

\* a handler that asks the rate limiter before it tests the prompt and
\* the API key
receivedRateFirst(tk, log, key, t) ==
  IF tk.req.json = "malformed" THEN [task |-> outerCatch(tk), log |-> log]
  ELSE IF falsy(tk.req.prompt)
    THEN [task |-> finish(tk, "Failed", errorResponse(400, "Prompt is required", NoValue)),
          log |-> rateCheck(tk, log, t).log]
  ELSE LET validated == [tk EXCEPT !.trace = Append(@, "Validated")] IN
  IF notConfigured(key)
    THEN [task |-> finish(validated, "Failed",
                          errorResponse(500, "Hugging Face API key not configured", NoValue)),
          log |-> rateCheck(tk, log, t).log]
  ELSE LET r == rateCheck(tk, log, t)
           checked == [validated EXCEPT
                         !.checked = TRUE,
                         !.admitted = ~r.limited,
                         !.kept = (tk.arrWin = filter(tk.arrWin, t))] IN
  afterRateCheck(checked, r)

\* POST from the moment request.json() settles to the first suspension:
\* the task and the rate limiter's log afterwards
received(tk, log, key, t) ==
  IF tk.req.json = "malformed" THEN [task |-> outerCatch(tk), log |-> log]
  ELSE IF falsy(tk.req.prompt)
    THEN [task |-> finish(tk, "Failed", errorResponse(400, "Prompt is required", NoValue)),
          log |-> log]
  ELSE LET validated == [tk EXCEPT !.trace = Append(@, "Validated")] IN
  IF notConfigured(key)
    THEN [task |-> finish(validated, "Failed",
                          errorResponse(500, "Hugging Face API key not configured", NoValue)),
          log |-> log]
  ELSE LET r == rateCheck(tk, log, t)
           checked == [validated EXCEPT
                         !.checked = TRUE,
                         !.admitted = ~r.limited,
                         !.kept = (tk.arrWin = filter(tk.arrWin, t))] IN
  afterRateCheck(checked, r)

(***************************************************************************)
(* Client page (src/unnamed/part_001): generateImage and the history store *)
(*                                                                         *)
(* The fetch of /api/generate ends in one of three ways: it rejects, its   *)
(* body is not JSON (response.json() rejects), or it carries the JSON data *)
(* of a response of the handler.                                           *)
(***************************************************************************)
Null == "<null>"

Users == {"uid-1", "uid-2"}

ClientPrompts == {"a cat", "a dog"}

\* the JSON bodies the handler sends
ServerResponses ==
  { outputResponse(Bytes("bytes")),
    errorResponse(400, "Prompt is required", NoValue),
    errorResponse(429, "Rate limit exceeded. Please wait 1 minute before trying again.", NoValue),
    errorResponse(500, "Failed to generate image: ", TransportError) }

ClientOutcomes ==
  {[kind |-> k, data |-> Unanswered] : k \in {"rejected", "notjson"}}
  \cup {[kind |-> "json", data |-> d] : d \in ServerResponses}

ClientIdle ==
  [pc |-> "idle", user |-> Null, prompt |-> "", loading |-> FALSE,
   error |-> "", imageUrl |-> NoValue, got |-> "none", data |-> Unanswered,
   before |-> 0, clicks |-> 0]

\* generateImage up to its fetch: `user` and `prompt` are those of the
\* render in which the button was pressed; got, data and before record the
\* outcome of the fetch and the size of the collection at the start
startGenerateImage(c, u, prompt, size) ==
  [c EXCEPT !.pc = "fetch", !.user = u, !.prompt = prompt,
            !.loading = TRUE, !.error = "",
            !.got = "none", !.data = Unanswered, !.before = size,
            !.clicks = @ + 1]

\* the catch and finally blocks of generateImage
clientCatch(c) ==
  [c EXCEPT !.pc = "idle", !.loading = FALSE,
            !.error = "Failed to generate image. Please try again."]

\* an error test that never finds an error
carriesErrorNever(data) == FALSE

\* if (data.error)
carriesError(data) == data.field = "error" /\ ~falsy(data.text)

\* generateImage from the moment its fetch settles to the call of addDoc
\* or to its end
afterClientFetch(c0, out) ==
  LET c == [c0 EXCEPT !.got = out.kind, !.data = out.data] IN
  IF out.kind # "json" THEN clientCatch(c)
  ELSE IF carriesError(out.data)
    THEN [c EXCEPT !.pc = "idle", !.loading = FALSE, !.error = out.data.text]
  ELSE LET shown == [c EXCEPT !.imageUrl =
                        IF out.data.field = "output" THEN out.data.detail
                                                     ELSE NoValue] IN
  IF c.user # Null
    THEN [shown EXCEPT !.pc = "addDoc"]
    ELSE [shown EXCEPT !.pc = "idle", !.loading = FALSE]

\* the document generateImage hands to addDoc
imageDoc(c) ==
  [userId |-> c.user, imageUrl |-> c.imageUrl, prompt |-> c.prompt]

(***************************************************************************)
(* Actions of the handler.  The clock is advanced by Tick alone: a         *)
(* suspended handler resumes at some later step, whatever time has passed. *)
(***************************************************************************)
Init ==
  /\ now = 0
  /\ ticks = 0
  /\ requestLog = <<>>
  /\ ncalls = 0
  /\ admitLog = [id \in Identities |-> <<>>]
  /\ last = NoCall
  /\ gen = NoGen
  /\ hist = <<>>
  /\ apiKey \in BOOLEAN
  /\ backupKey \in BOOLEAN
  /\ task = [t \in Tasks |-> Idle]
  /\ nreq = 0
  /\ user = Null
  /\ client = ClientIdle
  /\ history = <<>>

\* a request arrives and its handler starts: it awaits request.json()
Arrive(t, req) ==
  /\ task[t].pc = "idle"
  /\ nreq < MaxRequests
  /\ nreq' = nreq + 1
  /\ LET userId == userIdOf(req)
         rivals == {u \in Tasks \ {t} :
                      task[u].pc = "json" /\ task[u].userId = userId} IN
     task' = [u \in Tasks |->
                IF u = t
                  THEN [Idle EXCEPT
                          !.pc = "json", !.req = req, !.userId = userId,
                          !.trace = <<"Received">>,
                          !.arrWin = filter(userRequests(requestLog, userId), now),
                          !.raced = (rivals # {})]
                ELSE IF u \in rivals THEN [task[u] EXCEPT !.raced = TRUE]
                ELSE task[u]]
  /\ UNCHANGED <<now, ticks, requestLog, rlVars, genVars, apiKey, backupKey, clientVars>>

\* request.json() settles and the handler runs to its first fetch or to
\* its response
Received(t) ==
  /\ task[t].pc = "json"
  /\ LET r == received(task[t], requestLog, apiKey, now) IN
       /\ task' = [task EXCEPT ![t] = r.task]
       /\ requestLog' = r.log
  /\ UNCHANGED <<now, ticks, rlVars, genVars, apiKey, backupKey, nreq, clientVars>>

\* the pending fetch of the task settles with `out`
Fetch(t, out) ==
  /\ task[t].pc = "fetch"
  /\ LET tk == afterGenerate([task[t] EXCEPT !.g = afterFetch(@, out)]) IN
     \* answer: the upstream answer to the last call of the request
     task' = [task EXCEPT ![t] =
                IF tk.pc = "done" THEN [tk EXCEPT !.answer = out] ELSE tk]
  /\ UNCHANGED <<now, ticks, requestLog, rlVars, genVars, apiKey, backupKey, nreq, clientVars>>

\* the timer of the task's sleep fires
Wake(t) ==
  /\ task[t].pc = "sleep"
  /\ task' = [task EXCEPT ![t] =
                afterGenerate([task[t] EXCEPT !.g = afterSleep(@)])]
  /\ UNCHANGED <<now, ticks, requestLog, rlVars, genVars, apiKey, backupKey, nreq, clientVars>>

\* the response has been sent and the task is gone
Close(t) ==
  /\ task[t].pc = "done"
  /\ task' = [task EXCEPT ![t] = Idle]
  /\ UNCHANGED <<now, ticks, requestLog, rlVars, genVars, apiKey, backupKey, nreq, clientVars>>

(***************************************************************************)
(* Spec: the handler serving one request after the other, for every        *)
(* request, configuration and upstream answer                              *)
(***************************************************************************)
TickPost ==
  /\ ticks < MaxPostTicks
  /\ Tick(RATE_LIMIT_WINDOW)
  /\ UNCHANGED <<requestLog, rlVars, genVars, postVars, clientVars>>

Next ==
  \/ TickPost
  \/ \E req \in Requests : Arrive(1, req)
  \/ Received(1)
  \/ \E out \in Outcomes : Fetch(1, out)
  \/ Wake(1)
  \/ Close(1)

Spec == Init /\ [][Next]_vars

\* every suspended handler is resumed: request.json(), fetch and the timer
\* of sleep all settle
Fairness ==
  /\ WF_vars(Received(1))
  /\ WF_vars(\E out \in Outcomes : Fetch(1, out))
  /\ WF_vars(Wake(1))

FairSpec == Spec /\ Fairness

(***************************************************************************)
(* SpecRace: two handlers in flight at once, interleaved at their          *)
(* suspension points; the requests carry a prompt and no x-forwarded-for   *)
(* header, so that all of them share one identity, and the upstream either *)
(* delivers an image or fails at transport level                           *)
(***************************************************************************)
RaceRequests ==
  [json : {"object"}, prompt : {"a cat"}, forwardedFor : {Undefined}]

RaceOutcomes == {NoResponse, [status |-> 200, body |-> "bytes"]}

InitRace ==
  /\ Init
  /\ apiKey = TRUE
  /\ backupKey = FALSE

TickRace ==
  /\ ticks < MaxRaceTicks
  /\ Tick(RATE_LIMIT_WINDOW)
  /\ UNCHANGED <<requestLog, rlVars, genVars, postVars, clientVars>>

NextRace ==
  \/ TickRace
  \/ \E t \in Tasks, req \in RaceRequests : Arrive(t, req)
  \/ \E t \in Tasks : Received(t)
  \/ \E t \in Tasks, out \in RaceOutcomes : Fetch(t, out)
  \/ \E t \in Tasks : Wake(t)
  \/ \E t \in Tasks : Close(t)

SpecRace == InitRace /\ [][NextRace]_vars

(***************************************************************************)
(* Claims about the request handler                                        *)
(***************************************************************************)

\* both tasks were suspended before their rate check at the same time, for
\* the same identity, when the same 4 requests were recorded in the window,
\* and those 4 were still in the window at the rate check of each
RacedForFifthSlot(t1, t2) ==
  /\ t1 # t2
  /\ task[t1].raced /\ task[t2].raced
  /\ task[t1].userId = task[t2].userId
  /\ task[t1].checked /\ task[t2].checked
  /\ Len(task[t1].arrWin) = 4
  /\ task[t1].arrWin = task[t2].arrWin
  /\ task[t1].kept /\ task[t2].kept

\* C3: of two handlers of one identity that run concurrently and both reach
\* the rate limiter while exactly 4 prior requests of the identity are in
\* the window, exactly one is admitted and the other is rejected, in every
\* interleaving at the suspension points.
C3_NoDoubleAdmission ==
  \A t1, t2 \in Tasks :
    RacedForFifthSlot(t1, t2) => task[t1].admitted # task[t2].admitted

\* two handlers raced for the 5th slot: one is generating, the other was
\* answered 429
C3_Witness ==
  \E t1, t2 \in Tasks :
    /\ RacedForFifthSlot(t1, t2)
    /\ task[t1].admitted
    /\ task[t1].pc \in {"fetch", "sleep"}
    /\ task[t2].pc = "done"
    /\ task[t2].response.status = 429

\* C7: a request whose prompt is empty or missing is answered with status
\* 400 (InvalidInput) and generateImageWithRetry is never started for it,
\* whatever the rate limiter holds and whether or not the API key is set.
C7_EmptyPromptRejected ==
  \A t \in Tasks :
    (/\ task[t].pc # "idle"
     /\ task[t].req.json = "object"
     /\ task[t].req.prompt \in {Undefined, ""})
    => /\ task[t].pc \in {"json", "done"}
       /\ task[t].g = NoGen
       /\ task[t].pc = "done" =>
            task[t].response = errorResponse(400, "Prompt is required", NoValue)

\* a request with an empty prompt was answered 400 while the quota of its
\* identity was used up
C7_Witness ==
  \E t \in Tasks :
    /\ task[t].pc = "done"
    /\ task[t].req.json = "object"
    /\ task[t].req.prompt = ""
    /\ task[t].response.status = 400
    /\ Len(filter(userRequests(requestLog, task[t].userId), now)) = 5

\* C9: when generate fails, the handler answers 503 exactly when the failure
\* is the upstream 503 left after the retries (ModelLoading), 429 exactly
\* when it is an upstream 429, and 500 for every other failure, whatever the
\* upstream error body says.
C9_FailureStatus ==
  \A t \in Tasks :
    (task[t].pc = "done" /\ task[t].g.pc = "thrown") =>
      /\ task[t].response.status \in {429, 500, 503}
      /\ task[t].response.status = 503 <=> task[t].g.value.status = 503
      /\ task[t].response.status = 429 <=> task[t].g.value.status = 429

\* the phases a handler may have gone through, in order
Traces ==
  { <<"Received">>,
    <<"Received", "Failed">>,
    <<"Received", "Validated", "Failed">>,
    <<"Received", "Validated", "RateChecked", "Generating">>,
    <<"Received", "Validated", "RateChecked", "Generating", "Succeeded">>,
    <<"Received", "Validated", "RateChecked", "Generating", "Failed">> }

\* the task is where its phases say, and a finished task holds a structured
\* response: 200 with an output, or 4xx/5xx with an error
Structured(t) ==
  /\ task[t].pc \in {"idle", "json", "fetch", "sleep", "done"}
  /\ task[t].pc # "idle" => task[t].trace \in Traces
  /\ task[t].pc = "json" => task[t].trace = <<"Received">>
  /\ task[t].pc \in {"fetch", "sleep"} =>
       task[t].trace[Len(task[t].trace)] = "Generating"
  /\ task[t].pc = "done" =>
       \/ /\ task[t].trace[Len(task[t].trace)] = "Succeeded"
          /\ task[t].response.status = 200
          /\ task[t].response.field = "output"
       \/ /\ task[t].trace[Len(task[t].trace)] = "Failed"
          /\ task[t].response.status \in {400, 429, 500, 503}
          /\ task[t].response.field = "error"

\* C10: every request ends in one structured response: its handler goes
\* through Received, Validated, RateChecked, Generating in this order, as
\* far as the request gets, and ends in Succeeded (200 with output) or
\* Failed (4xx/5xx with error); no exception escapes it.
C10_AlwaysResponds ==
  /\ [](\A t \in Tasks : Structured(t))
  /\ \A t \in Tasks : (task[t].pc = "json") ~> (task[t].pc = "done")

\* a handler whose upstream calls all failed at transport level ended in
\* Failed with a 500 response
C10_Witness ==
  \E t \in Tasks :
    /\ task[t].pc = "done"
    /\ task[t].g.pc = "thrown"
    /\ task[t].g.value = TransportError
    /\ task[t].trace = <<"Received", "Validated", "RateChecked", "Generating", "Failed">>
    /\ task[t].response.status = 500

\* C11: when the rate limiter rejects the identity of a request, the
\* handler answers 429 and generateImageWithRetry is never started for that
\* request: no upstream call is made.
C11_RateLimitedRejected ==
  \A t \in Tasks :
    (task[t].checked /\ ~task[t].admitted) =>
      /\ task[t].pc = "done"
      /\ task[t].response.status = 429
      /\ task[t].response =
           errorResponse(429, "Rate limit exceeded. Please wait 1 minute before trying again.", NoValue)
      /\ task[t].g = NoGen
      /\ task[t].g.calls = 0

\* a valid request of an identity with 5 requests in the window was
\* rejected by the rate limiter and answered 429
C11_Witness ==
  \E t \in Tasks :
    /\ task[t].pc = "done"
    /\ task[t].checked /\ ~task[t].admitted
    /\ Len(task[t].arrWin) = 5
    /\ task[t].response.status = 429
    /\ task[t].g.calls = 0

\* C12: when the API key is not configured, a request with a non-empty
\* prompt is answered 500 at once: the handler never suspends after
\* request.json() and makes no upstream call.
C12_MissingKey ==
  \A t \in Tasks :
    (/\ ~apiKey
     /\ task[t].pc # "idle"
     /\ task[t].req.json = "object"
     /\ task[t].req.prompt = "a cat")
    => /\ task[t].pc \in {"json", "done"}
       /\ task[t].g = NoGen
       /\ task[t].pc = "done" =>
            task[t].response =
              errorResponse(500, "Hugging Face API key not configured", NoValue)

\* without an API key, a request with a prompt was answered 500 before the
\* rate limiter was asked
C12_Witness ==
  \E t \in Tasks :
    /\ ~apiKey
    /\ task[t].pc = "done"
    /\ task[t].req.prompt = "a cat"
    /\ task[t].response.status = 500
    /\ task[t].trace = <<"Received", "Validated", "Failed">>
    /\ ~task[t].checked

\* C13: with a backup API key configured, a failure of the calls made with
\* the primary key that is not the model-loading failure (503) is followed
\* by one more cycle of calls made with the backup key, so a failure that
\* reaches the response was raised by a call made with the backup key.
C13_SecondaryCycle ==
  \A t \in Tasks :
    (/\ backupKey
     /\ task[t].pc = "done"
     /\ task[t].g.pc = "thrown"
     /\ task[t].g.value.status # 503)
    => task[t].g.API_KEY # PrimaryKey

\* C14: the 500 response for a failed generation is generic: it is the same
\* response whatever status and error body the upstream sent, so it carries
\* no text of the upstream answer.
C14_GenericFailure ==
  \A t \in Tasks :
    (/\ task[t].pc = "done"
     /\ task[t].g.pc = "thrown"
     /\ task[t].g.value.kind = "http"
     /\ task[t].response.status = 500)
    => task[t].response =
         errorResponse(500, "Failed to generate image: ", NoValue)

\* the timestamps of seq that a rate-limiter call made now would keep
InWindow(seq) ==
  SelectSeq(seq, LAMBDA timestamp : now - timestamp < RATE_LIMIT_WINDOW)

IsPrefix(s1, s2) ==
  /\ Len(s1) <= Len(s2)
  /\ SubSeq(s2, 1, Len(s1)) = s1

\* the task has answered with a failure
EndedFailed(t) ==
  /\ task[t].pc = "done"
  /\ task[t].trace[Len(task[t].trace)] = "Failed"

\* C15 as stated: a request that ends in Failed retains no state: the
\* timestamps a later request of its identity finds in the window are those
\* it would find if the failed request had never been made.
C15_FailedRetainsNothing ==
  \A t \in Tasks :
    EndedFailed(t) =>
      InWindow(userRequests(requestLog, task[t].userId)) = InWindow(task[t].arrWin)

\* C15, amended: a request that ends in Failed retains nothing but the slot
\* of its own admission.  If it failed before or at the rate check, the
\* timestamps of its identity in the window are as if it had never been
\* made; if it was admitted and generation failed, they are those plus at
\* most one, its own.  Timestamps of an identity change at the rate check
\* of a request of that identity and at no other step.
C15_FailedKeepsOnlyItsSlot ==
  /\ [](\A t \in Tasks :
         EndedFailed(t) =>
           LET cur == InWindow(userRequests(requestLog, task[t].userId))
               old == InWindow(task[t].arrWin) IN
           IF task[t].admitted
             THEN IsPrefix(old, cur) /\ Len(cur) <= Len(old) + 1
             ELSE cur = old)
  /\ [][\A id \in Identities :
         userRequests(requestLog', id) # userRequests(requestLog, id) =>
           \E t \in Tasks :
             /\ task[t].pc = "json"
             /\ task[t].userId = id
             /\ task'[t].checked]_vars

\* an admitted request whose generation failed has left its timestamp in
\* the window of its identity
C15_Witness ==
  \E t \in Tasks :
    /\ EndedFailed(t)
    /\ task[t].admitted
    /\ task[t].g.pc = "thrown"
    /\ Len(InWindow(userRequests(requestLog, task[t].userId)))
         = Len(InWindow(task[t].arrWin)) + 1

\* a request rejected by the rate limiter has left the window of its
\* identity as it found it
C15_WitnessRejected ==
  \E t \in Tasks :
    /\ EndedFailed(t)
    /\ task[t].checked /\ ~task[t].admitted
    /\ Len(InWindow(task[t].arrWin)) = 5

\* C16: the handler answers 200 with an output data URL only if the last
\* upstream call of the request answered 2xx with a readable body, and the
\* payload encoded in the data URL is the body of that answer;
\* generateImageWithRetry returns no payload taken from a non-2xx answer.
C16_OutputOnlyFrom2xx ==
  \A t \in Tasks :
    /\ (task[t].pc = "done" /\ task[t].response.status = 200) =>
         /\ task[t].answer.status \in 200..299
         /\ task[t].answer.body \in Bodies
         /\ task[t].response =
              [status |-> 200, field |-> "output",
               text |-> "data:image/jpeg;base64,",
               detail |-> [kind |-> "bytes", status |-> 0,
                           body |-> task[t].answer.body]]
    /\ (task[t].pc = "done" /\ task[t].g.pc = "returned") =>
         /\ task[t].answer.status \in 200..299
         /\ task[t].g.value.kind = "bytes"
         /\ task[t].g.value.body = task[t].answer.body
         /\ task[t].response.status = 200
    /\ (task[t].pc = "done" /\ task[t].response.field = "output") =>
         task[t].response.status = 200

\* after failed attempts the upstream answered 200 and the handler answered
\* 200 with the body of that answer
C16_Witness ==
  \E t \in Tasks :
    /\ task[t].pc = "done"
    /\ task[t].response.status = 200
    /\ task[t].g.calls >= 2
    /\ task[t].answer = [status |-> 200, body |-> "bytes"]
    /\ task[t].response.detail.body = "bytes"

\* C21: every request without the x-forwarded-for header is keyed by the
\* identity "anonymous" and shares its quota: when 5 such requests are in
\* the window, a further request without the header is rejected, while a
\* request with a header value is decided by the timestamps of that value
\* alone.
C21_AnonymousSharedQuota ==
  \A t \in Tasks :
    /\ (task[t].pc # "idle" /\ task[t].req.forwardedFor = Undefined) =>
         task[t].userId = "anonymous"
    /\ (task[t].pc # "idle" /\ task[t].req.forwardedFor # Undefined) =>
         task[t].userId = task[t].req.forwardedFor
    /\ (task[t].checked /\ task[t].kept) =>
         (task[t].admitted <=> Len(task[t].arrWin) < 5)
    /\ (task[t].checked /\ task[t].kept /\ task[t].admitted
        /\ task[t].req.forwardedFor = Undefined) =>
         /\ "anonymous" \in DOMAIN requestLog
         /\ Len(requestLog["anonymous"]) = Len(task[t].arrWin) + 1

\* a request without the header was rejected after 5 requests without the
\* header had been admitted inside the window
C21_Witness ==
  \E t \in Tasks :
    /\ task[t].pc = "done"
    /\ task[t].req.forwardedFor = Undefined
    /\ task[t].userId = "anonymous"
    /\ task[t].checked /\ task[t].kept /\ ~task[t].admitted
    /\ Len(task[t].arrWin) = 5
    /\ task[t].response.status = 429

\* a request with a header value was admitted while the quota of
\* "anonymous" was used up
C21_WitnessHeader ==
  \E t \in Tasks :
    /\ task[t].req.forwardedFor = "10.0.0.1"
    /\ task[t].checked /\ task[t].admitted
    /\ Len(InWindow(userRequests(requestLog, "anonymous"))) = 5

\* C26: an admitted request takes exactly one slot of the quota of its
\* identity, recorded before generation starts: while it generates and
\* after it has ended, by success or by failure, the stored sequence of
\* its identity is the one the rate check kept plus its one timestamp, and
\* no step of generation changes the rate limiter's log.
C26_OneSlotPerAdmission ==
  /\ [](\A t \in Tasks :
         task[t].admitted =>
           LET stored == userRequests(requestLog, task[t].userId) IN
           /\ task[t].pc \in {"fetch", "sleep", "done"}
           /\ Len(stored) >= 1
           /\ Len(stored) <= Len(task[t].arrWin) + 1
           /\ task[t].kept =>
                /\ Len(stored) = Len(task[t].arrWin) + 1
                /\ SubSeq(stored, 1, Len(stored) - 1) = task[t].arrWin)
  /\ [][\A t \in Tasks :
         (task[t].pc \in {"fetch", "sleep"} /\ task'[t] # task[t]) =>
           requestLog' = requestLog]_vars

\* a request admitted as the 3rd of its window was answered 200 after 3
\* retries, and the window holds 3 timestamps
C26_Witness ==
  \E t \in Tasks :
    /\ task[t].pc = "done"
    /\ task[t].admitted /\ task[t].kept
    /\ task[t].response.status = 200
    /\ task[t].g.calls = 4
    /\ Len(task[t].arrWin) = 2
    /\ Len(userRequests(requestLog, task[t].userId)) = 3

\* the request was answered 400 for its prompt or 500 for the missing key
RejectedBeforeRateCheck(tk) ==
  /\ tk.pc = "done"
  /\ \/ tk.response = errorResponse(400, "Prompt is required", NoValue)
     \/ tk.response = errorResponse(500, "Hugging Face API key not configured", NoValue)

\* C27: a request rejected for an empty or missing prompt or for a missing
\* API key is rejected before the rate limiter is asked: the step that
\* rejects it leaves the rate limiter's log as it was, so the request takes
\* no slot of its identity.
C27_RejectedBeforeRateLimiter ==
  /\ [](\A t \in Tasks :
         RejectedBeforeRateCheck(task[t]) =>
           /\ ~task[t].checked
           /\ Len(InWindow(userRequests(requestLog, task[t].userId)))
                = Len(InWindow(task[t].arrWin)))
  /\ [][\A t \in Tasks :
         (task[t].pc = "json" /\ RejectedBeforeRateCheck(task'[t])) =>
           requestLog' = requestLog]_vars

\* a request without a prompt was answered 400 while its identity had 2
\* timestamps in the window, and it still has 2
C27_Witness ==
  \E t \in Tasks :
    /\ RejectedBeforeRateCheck(task[t])
    /\ task[t].req.prompt = Undefined
    /\ task[t].response.status = 400
    /\ Len(InWindow(task[t].arrWin)) = 2
    /\ Len(userRequests(requestLog, task[t].userId)) = 2

(***************************************************************************)
(* SpecClient: the page, its user signing in and out, and the calls of     *)
(* generateImage, one at a time (the button is disabled while loading)     *)
(***************************************************************************)
InitClient ==
  /\ now = 0
  /\ ticks = 0
  /\ requestLog = <<>>
  /\ ncalls = 0
  /\ admitLog = [id \in Identities |-> <<>>]
  /\ last = NoCall
  /\ gen = NoGen
  /\ hist = <<>>
  /\ apiKey = TRUE
  /\ backupKey = FALSE
  /\ task = [t \in Tasks |-> Idle]
  /\ nreq = 0
  /\ user \in Users \cup {Null}
  /\ client = ClientIdle
  /\ history = <<>>

\* the auth state changes: a user signs in
SignIn(u) ==
  /\ user = Null
  /\ user' = u
  /\ UNCHANGED <<now, ticks, requestLog, rlVars, genVars, postVars, client, history>>

\* signOut()
SignOut ==
  /\ user # Null
  /\ user' = Null
  /\ UNCHANGED <<now, ticks, requestLog, rlVars, genVars, postVars, client, history>>

\* the Generate button is pressed (enabled when !loading and prompt is set)
Click(prompt) ==
  /\ client.pc = "idle"
  /\ ~client.loading
  /\ client.clicks < MaxClicks
  /\ client' = startGenerateImage(client, user, prompt, Len(history))
  /\ UNCHANGED <<now, ticks, requestLog, rlVars, genVars, postVars, user, history>>

\* the fetch of /api/generate and response.json() settle
ClientFetch(out) ==
  /\ client.pc = "fetch"
  /\ client' = afterClientFetch(client, out)
  /\ UNCHANGED <<now, ticks, requestLog, rlVars, genVars, postVars, user, history>>

\* addDoc settles: the document is stored, or addDoc rejects and the catch
\* block runs
AddDoc(stored) ==
  /\ client.pc = "addDoc"
  /\ IF stored
       THEN /\ history' = Append(history, imageDoc(client))
            /\ client' = [client EXCEPT !.pc = "idle", !.loading = FALSE]
       ELSE /\ history' = history
            /\ client' = clientCatch(client)
  /\ UNCHANGED <<now, ticks, requestLog, rlVars, genVars, postVars, user>>

NextClient ==
  \/ \E u \in Users : SignIn(u)
  \/ SignOut
  \/ \E prompt \in ClientPrompts : Click(prompt)
  \/ \E out \in ClientOutcomes : ClientFetch(out)
  \/ \E stored \in BOOLEAN : AddDoc(stored)

SpecClient == InitClient /\ [][NextClient]_vars

(***************************************************************************)
(* Claims about the client page                                            *)
(***************************************************************************)

\* C17: a call of generateImage adds a document to the history store only
\* if its response carried no error and the call had a signed-in user, and
\* it adds at most one; a call whose response carried an error, or whose
\* fetch or body read was rejected, adds none.
C17_RecordOnlyAfterSuccess ==
  LET added == Len(history) - client.before IN
  /\ added \in {0, 1}
  /\ added = 1 =>
       /\ client.got = "json"
       /\ client.data.field = "output"
       /\ client.user \in Users
       /\ history[Len(history)] =
            [userId |-> client.user, imageUrl |-> client.data.detail,
             prompt |-> client.prompt]
  /\ (client.got \in {"rejected", "notjson"} \/ client.data.field = "error") =>
       added = 0
  /\ client.user = Null => added = 0

\* a call answered with an output by the handler has stored one document
\* after an earlier call, answered 429, stored none
C17_Witness ==
  /\ client.pc = "idle"
  /\ client.clicks = 2
  /\ client.data.field = "output"
  /\ Len(history) = 1
  /\ client.before = 0
  /\ history[1].userId = client.user

(***************************************************************************)
(* SpecGen: one call of generateImageWithRetry against every upstream      *)
(***************************************************************************)
InitGen ==
  /\ now = 0
  /\ ticks = 0
  /\ requestLog = <<>>
  /\ ncalls = 0
  /\ admitLog = [id \in Identities |-> <<>>]
  /\ last = NoCall
  /\ gen = startGenerate
  /\ hist = <<>>
  /\ apiKey = TRUE
  /\ backupKey = FALSE
  /\ task = [t \in Tasks |-> Idle]
  /\ nreq = 0
  /\ user = Null
  /\ client = ClientIdle
  /\ history = <<>>

GenFetch(out) ==
  /\ gen.pc = "fetch"
  /\ gen' = afterFetch(gen, out)
  /\ hist' = Append(hist, out)
  /\ UNCHANGED <<now, ticks, requestLog, rlVars, postVars, clientVars>>

GenWake ==
  /\ gen.pc = "sleep"
  /\ gen' = afterSleep(gen)
  /\ UNCHANGED <<now, ticks, requestLog, rlVars, hist, postVars, clientVars>>

NextGen ==
  \/ \E out \in Outcomes : GenFetch(out)
  \/ GenWake

SpecGen == InitGen /\ [][NextGen]_vars

\* the answers so far are k answers 503 and then a readable 2xx answer
WarmUpThenOk(k) ==
  /\ Len(hist) = k + 1
  /\ \A i \in 1..k : hist[i].status = 503
  /\ ok(hist[k + 1].status)
  /\ hist[k + 1].body # Unreadable

\* every answer so far is a failure that is neither 503 nor 429
OnlyOtherFailures ==
  \A i \in 1..Len(hist) : hist[i].status \notin {503, 429}

\* the last answer is a readable 2xx response
LastIsOk ==
  /\ hist # <<>>
  /\ ok(hist[Len(hist)].status)
  /\ hist[Len(hist)].body # Unreadable

\* the error the last answer stands for
LastError ==
  IF hist[Len(hist)].status = 0 \/ hist[Len(hist)].body = Unreadable
    THEN TransportError
    ELSE HttpError(hist[Len(hist)].status, hist[Len(hist)].body)

(***************************************************************************)
(* SpecGenRevs: one call of generateImageWithRetry of either revision      *)
(***************************************************************************)
InitGenRevs ==
  /\ now = 0
  /\ ticks = 0
  /\ requestLog = <<>>
  /\ ncalls = 0
  /\ admitLog = [id \in Identities |-> <<>>]
  /\ last = NoCall
  /\ gen \in {startGenerate, startGenerateB}
  /\ hist = <<>>
  /\ apiKey = TRUE
  /\ backupKey = FALSE
  /\ task = [t \in Tasks |-> Idle]
  /\ nreq = 0
  /\ user = Null
  /\ client = ClientIdle
  /\ history = <<>>

GenFetchA(out) ==
  /\ gen.rev = "A"
  /\ GenFetch(out)

GenFetchB(out) ==
  /\ gen.rev = "B"
  /\ gen.pc = "fetch"
  /\ gen' = afterFetchB(gen, out)
  /\ hist' = Append(hist, out)
  /\ UNCHANGED <<now, ticks, requestLog, rlVars, postVars, clientVars>>

NextGenRevs ==
  \/ \E out \in Outcomes : GenFetchA(out)
  \/ \E out \in OutcomesB : GenFetchB(out)
  \/ GenWake

SpecGenRevs == InitGenRevs /\ [][NextGenRevs]_vars

(***************************************************************************)
(* Claims about the inference client                                       *)
(***************************************************************************)

\* C4: after k answers 503 (1 <= k <= 3) followed by a 2xx answer, generate
\* has returned the payload of that 2xx answer and performed exactly k delays.
C4_WarmUpThenSuccess ==
  \A k \in 1..3 :
    WarmUpThenOk(k) =>
      /\ gen.pc = "returned"
      /\ gen.value = Bytes(hist[k + 1].body)
      /\ gen.delays = k
      /\ gen.calls = k + 1

\* the upstream answered [503, 503, 200] and generate returned
C4_Witness ==
  /\ WarmUpThenOk(2)
  /\ gen.pc = "returned"
  /\ gen.delays = 2

\* C5: when the upstream answers 503 to all of 4 attempts, generate fails
\* with the 503 error (ModelLoading) after exactly 4 calls and 3 delays, and
\* no call of generate ever makes a 5th upstream call or a 4th delay.
C5_WarmUpExhausted ==
  /\ gen.calls <= 4
  /\ gen.delays <= 3
  /\ (/\ Len(hist) = 4
      /\ \A i \in 1..4 : hist[i].status = 503
      /\ hist[4].body # Unreadable)
     => /\ gen.pc = "thrown"
        /\ gen.value = HttpError(503, hist[4].body)
        /\ gen.calls = 4
        /\ gen.delays = 3

\* the upstream answered [503, 503, 503, 503] and generate failed
C5_Witness ==
  /\ Len(hist) = 4
  /\ \A i \in 1..4 : hist[i].status = 503
  /\ gen.pc = "thrown"
  /\ gen.value.status = 503

\* C6: when an upstream call answers 429, generate fails at once with the
\* 429 error: no delay and no further upstream call follows the 429 answer.
C6_NoRetryOn429 ==
  (hist # <<>> /\ hist[Len(hist)].status = 429 /\ hist[Len(hist)].body # Unreadable)
  => /\ gen.pc = "thrown"
     /\ gen.value.status = 429
     /\ gen.delays = Len(hist) - 1

\* C8: when every answer is a non-2xx other than 503 and 429, a transport
\* failure or a 2xx, generate returns the payload as soon as an attempt
\* answers 2xx, retries after one delay per failed attempt up to 3 times,
\* each delay being the fixed 2000 ms, and fails with the error of the 4th
\* attempt after exactly 3 delays when all 4 attempts fail.
C8_RetryOtherFailures ==
  (hist # <<>> /\ OnlyOtherFailures) =>
    /\ gen.calls = Len(hist)
    /\ Len(hist) <= 4
    /\ gen.waited = 2000 * gen.delays
    /\ LastIsOk =>
         /\ gen.pc = "returned"
         /\ gen.value = Bytes(hist[Len(hist)].body)
         /\ gen.delays = Len(hist) - 1
    /\ (~LastIsOk /\ Len(hist) < 4) =>
         /\ gen.pc \in {"sleep", "fetch"}
         /\ gen.delays = Len(hist)
    /\ (~LastIsOk /\ Len(hist) = 4) =>
         /\ gen.pc = "thrown"
         /\ gen.value = LastError
         /\ gen.delays = 3

\* 4 attempts failed with a status other than 503 and 429 or at transport
\* level, both kinds among them, and generate failed
C8_Witness ==
  /\ Len(hist) = 4
  /\ OnlyOtherFailures
  /\ \E i \in 1..4 : hist[i].status = 0
  /\ \E i \in 1..4 : hist[i].status = 500
  /\ gen.pc = "thrown"
  /\ gen.delays = 3

\* one attempt failed, the next answered 2xx and generate returned its payload
C8_WitnessRecovered ==
  /\ Len(hist) = 2
  /\ OnlyOtherFailures
  /\ gen.pc = "returned"

\* the call has ended: it returned or threw
Terminated ==
  gen.pc \in {"returned", "thrown"}

\* C22: for every sequence of upstream answers, also one that mixes 503
\* answers, other non-2xx answers and transport failures, and in both
\* revisions, one call of generateImageWithRetry makes at most 4 upstream
\* calls and at most 3 delays and has ended once the 4th call is answered:
\* the 503 path and the error path count their retries in the one
\* retryCount, which never decreases and grows by one per retry.
C22_BoundedAttempts ==
  /\ [](/\ gen.calls <= 4
        /\ gen.delays <= 3
        /\ gen.retryCount <= 3
        /\ gen.calls = Len(hist)
        /\ Len(hist) = 4 => Terminated
        /\ gen.pc = "fetch" => gen.calls = gen.retryCount
        /\ gen.pc = "sleep" => gen.delays = gen.retryCount + 1)
  /\ [][/\ gen'.retryCount >= gen.retryCount
        /\ gen'.retryCount <= gen.retryCount + 1
        /\ gen'.calls > gen.calls => gen.calls = gen.retryCount]_vars

\* a call of revision B met a transport failure, a 500 and two 503 answers
\* and failed after 4 calls and 3 delays
C22_Witness ==
  /\ gen.rev = "B"
  /\ Len(hist) = 4
  /\ \E i \in 1..4 : hist[i].status = 0
  /\ \E i \in 1..4 : hist[i].status = 500
  /\ \E i, k \in 1..4 : i # k /\ hist[i].status = 503 /\ hist[k].status = 503
  /\ gen.pc = "thrown"
  /\ gen.calls = 4
  /\ gen.delays = 3

\* the same for a call of revision A
C22_WitnessA ==
  /\ gen.rev = "A"
  /\ Len(hist) = 4
  /\ \E i \in 1..4 : hist[i].status = 0
  /\ \E i \in 1..4 : hist[i].status = 500
  /\ \E i, k \in 1..4 : i # k /\ hist[i].status = 503 /\ hist[k].status = 503
  /\ gen.pc = "thrown"
  /\ gen.calls = 4
  /\ gen.delays = 3

\* C23: in revision B, when the upstream answers 503 to every attempt, the
\* 503 is retried after the delay up to 3 times, so the call ends after 4
\* calls and 3 delays, and the handler answers the failure with status 503.
C23_WarmUpExhaustedB ==
  (/\ gen.rev = "B"
   /\ Terminated
   /\ hist # <<>>
   /\ \A i \in 1..Len(hist) :
        hist[i].status = 503 /\ hist[i].body # Unreadable)
  => /\ gen.pc = "thrown"
     /\ gen.calls = 4
     /\ gen.delays = 3
     /\ failureResponseB(gen.value).status = 503

\* C24: in revision B, generateImageWithRetry returns a payload only when
\* the status of the last answer is 2xx and its body is not a JSON error
\* envelope, and the payload is that body: a 2xx answer with a JSON error
\* envelope and every non-2xx answer are failed attempts.
C24_PayloadOnlyFromImage ==
  (gen.rev = "B" /\ gen.pc = "returned") =>
    /\ hist[Len(hist)].status \in 200..299
    /\ ~hasError(hist[Len(hist)].body)
    /\ gen.value = Bytes(hist[Len(hist)].body)

\* C25: when generateImageWithRetry ends, by a return or by a throw, the
\* number of delays it made is the number of its upstream calls minus one:
\* one delay comes before every retry and none after the last attempt.
C25_DelaysBetweenCalls ==
  /\ Terminated => gen.delays = gen.calls - 1
  /\ gen.pc = "sleep" => gen.delays = gen.calls
  /\ gen.pc = "fetch" => gen.delays = gen.calls
  /\ gen.waited = RETRY_DELAY * gen.delays

\* a call returned on its 3rd attempt, after a 503 and a 500, with 2 delays
C25_Witness ==
  /\ gen.pc = "returned"
  /\ Len(hist) = 3
  /\ hist[1].status = 503
  /\ hist[2].status = 500
  /\ gen.calls = 3
  /\ gen.delays = 2

(***************************************************************************)
(* SpecRL: the rate limiter driven directly, at non-decreasing times       *)
(***************************************************************************)
InitRL ==
  /\ now = 0
  /\ ticks = 0
  /\ requestLog = <<>>
  /\ ncalls = 0
  /\ admitLog = [id \in Identities |-> <<>>]
  /\ last = NoCall
  /\ gen = NoGen
  /\ hist = <<>>
  /\ apiKey = TRUE
  /\ backupKey = FALSE
  /\ task = [t \in Tasks |-> Idle]
  /\ nreq = 0
  /\ user = Null
  /\ client = ClientIdle
  /\ history = <<>>

TickRL ==
  /\ \E d \in Deltas : Tick(d)
  /\ UNCHANGED <<requestLog, ncalls, admitLog, last, genVars, postVars, clientVars>>

\* one call isRateLimited(userId); admitLog keeps every admitted call,
\* last describes the call
CheckAndRecord(userId) ==
  /\ ncalls < MaxCalls
  /\ LET r == isRateLimited(requestLog, userId, now) IN
       /\ requestLog' = r.log
       /\ admitLog' = IF r.limited THEN admitLog
                      ELSE [admitLog EXCEPT ![userId] = Append(@, now)]
       /\ last' = [called |-> TRUE, userId |-> userId, at |-> now,
                   before |-> userRequests(requestLog, userId),
                   limited |-> r.limited]
  /\ ncalls' = ncalls + 1
  /\ UNCHANGED <<now, ticks, genVars, postVars, clientVars>>

NextRL ==
  \/ TickRL
  \/ \E userId \in Identities : CheckAndRecord(userId)

SpecRL == InitRL /\ [][NextRL]_vars

(***************************************************************************)
(* Claims about the rate limiter                                           *)
(***************************************************************************)

\* C1: for every identity, at most 5 requests are admitted inside any
\* 60-second span: of the admitted requests of one identity, the one that
\* comes 5 places after another is at least 60 000 ms later, so a request
\* arriving less than 60 s after the first of 5 admitted ones is rejected.
C1_AtMostFivePerWindow ==
  \A id \in Identities :
    \A i \in 1..Len(admitLog[id]) :
      i + 5 <= Len(admitLog[id]) =>
        admitLog[id][i + 5] - admitLog[id][i] >= 60000

\* the 6th request inside the span of 5 admitted ones has been rejected
C1_Witness ==
  /\ last.called
  /\ last.limited
  /\ Len(admitLog[last.userId]) >= 5
  /\ last.at - admitLog[last.userId][Len(admitLog[last.userId]) - 4] < 60000
  /\ last.at > admitLog[last.userId][Len(admitLog[last.userId])]

\* C2: the window slides: a call for an identity with 5 recorded
\* timestamps, made 61 s after the first recorded one, is accepted, also
\* when the other recorded timestamps are still inside the window.
C2_WindowSlides ==
  (/\ last.called
   /\ Len(last.before) = 5
   /\ last.at - last.before[1] = 61000)
  => ~last.limited

\* such a call happened while the other 4 timestamps were still in the window
C2_Witness ==
  /\ last.called
  /\ Len(last.before) = 5
  /\ last.at - last.before[1] = 61000
  /\ last.at - last.before[2] < 60000
  /\ ~last.limited

\* the timestamps of seq less than 60 s old at time t
PrunedAt(seq, t) ==
  SelectSeq(seq, LAMBDA timestamp : t - timestamp < 60000)

\* the stored sequence of the identity of the last call
Stored ==
  userRequests(requestLog, last.userId)

\* C18: a rejected rate-limiter call records nothing: a call that finds 5
\* or more timestamps of the identity in the window is rejected, and after
\* it the stored sequence of the identity is the pruned sequence, made of
\* admitted calls only, so a rejected call never postpones the time at
\* which the identity is admitted again.
C18_RejectedRecordsNothing ==
  last.called =>
    LET pruned == PrunedAt(last.before, last.at) IN
    /\ Len(pruned) >= 5 => last.limited
    /\ last.limited =>
         /\ Len(pruned) >= 5
         /\ Stored = pruned
         /\ Stored = PrunedAt(admitLog[last.userId], last.at)

\* a call made after 5 admitted ones, later but inside their window, was
\* rejected and left the 5 stored timestamps as they were
C18_Witness ==
  /\ last.called
  /\ last.limited
  /\ Len(last.before) = 5
  /\ Stored = last.before
  /\ last.at > last.before[5]
  /\ last.at - last.before[1] < 60000

\* C19: in every state the timestamps stored for an identity are at most
\* 5 and in non-decreasing order, and right after a rate-limiter call for
\* an identity every timestamp stored for it is less than 60 s older than
\* the time of the call.
C19_StoredSequenceBounded ==
  /\ \A id \in DOMAIN requestLog :
       /\ Len(requestLog[id]) <= 5
       /\ \A i \in 1..(Len(requestLog[id]) - 1) :
            requestLog[id][i] <= requestLog[id][i + 1]
  /\ last.called =>
       \A i \in 1..Len(Stored) :
         /\ last.at - Stored[i] >= 0
         /\ last.at - Stored[i] < 60000

\* after a call the identity has 5 stored timestamps, the oldest of them
\* 59 999 ms before the call
C19_Witness ==
  /\ last.called
  /\ Len(Stored) = 5
  /\ last.at - Stored[1] = 59999
  /\ Stored[5] = last.at

\* the admitted calls of the identity of the last call that came before it
PriorAdmitted ==
  LET mine == admitLog[last.userId] IN
  IF last.limited THEN mine ELSE SubSeq(mine, 1, Len(mine) - 1)

\* C20: identities do not interfere: a rate-limiter call for one identity
\* leaves the stored sequence of every other identity unchanged, and the
\* decision for an identity is fixed by the time of the call and the
\* earlier admitted calls of that identity alone, whatever calls the other
\* identities made.
C20_IdentitiesIndependent ==
  /\ [][\A A \in Identities :
         (ncalls' = ncalls + 1 /\ last'.userId = A) =>
           \A B \in Identities \ {A} :
             userRequests(requestLog', B) = userRequests(requestLog, B)]_vars
  /\ [](last.called =>
          (last.limited <=> Len(PrunedAt(PriorAdmitted, last.at)) >= 5))
  /\ [](\A B \in Identities :
          PrunedAt(userRequests(requestLog, B), now)
            = PrunedAt(admitLog[B], now))

\* an identity was admitted on its first call while another identity had
\* used up its 5 requests of the window
C20_Witness ==
  /\ last.called
  /\ ~last.limited
  /\ last.before = <<>>
  /\ Stored = <<last.at>>
  /\ \E A \in Identities \ {last.userId} :
       Len(PrunedAt(userRequests(requestLog, A), last.at)) = 5

\* C28: a recorded timestamp counts toward the quota exactly while its
\* age is less than 60 000 ms: the timestamps kept by a call are those of
\* age 0..59 999, and with 5 timestamps recorded a call made exactly
\* 60 000 ms after the oldest is admitted, one made 59 999 ms after it is
\* rejected.
C28_WindowBoundary ==
  last.called =>
    /\ (Len(last.before) = 5 /\ last.at - last.before[1] = 60000) => ~last.limited
    /\ (Len(last.before) = 5 /\ last.at - last.before[1] = 59999) => last.limited
    /\ \A i \in 1..Len(last.before) :
         (last.at - last.before[i] < 60000)
           <=> (\E k \in 1..Len(Stored) :
                  Stored[k] = last.before[i] /\ (k < Len(Stored) \/ last.limited))

\* a call made exactly 60 000 ms after the oldest of 5 timestamps was
\* admitted
C28_Witness ==
  /\ last.called
  /\ Len(last.before) = 5
  /\ last.at - last.before[1] = 60000
  /\ ~last.limited

\* a call made 59 999 ms after the oldest of 5 timestamps was rejected
C28_WitnessRejected ==
  /\ last.called
  /\ Len(last.before) = 5
  /\ last.at - last.before[1] = 59999
  /\ last.limited

====
